---- MODULE Spec2Model ----
(***************************************************************************)
(* GDAN workspace scripts: analyses_new, stddata_new and gdac_new.         *)
(* Each script is a sequential program that issues remote calls through    *)
(* fissfc(); the model keeps the program counter, the script's locals, the *)
(* set of workspaces that exist remotely, and the trace of calls issued.   *)
(* Strings are sequences of characters; a word of letters that the code    *)
(* never looks inside is kept as one element.                              *)
(***************************************************************************)
EXTENDS Naturals, Sequences, FiniteSets

VARIABLES
    script,      \* which program runs
    pc,          \* the statement the program is at
    exit,        \* "running", or how the process ended
    calls,       \* the remote calls issued so far, in order
    log,         \* the messages logged so far that the claims name
    spaces,      \* the workspaces the run knows to exist remotely
    absent,      \* the workspaces the run knows not to exist remotely
    args,        \* the parsed command line
    workspace,   \* the target workspace (analyses, stddata, args.workspace)
    new,         \* gdac_new: create_workspace's second result
    workflow,    \* the DOT file in use
    configs,     \* the configs get_configs has still to yield
    attributes,  \* the dict load_attributes returned
    ssets,       \* the sample sets analyses_sset_list has still to visit
    sset,        \* the sample set of the current loop iteration
    pending,     \* the items of the current loop that remain
    globbed,     \* the loadfiles of the current loop that remain
    prompts,     \* the questions ask() has put to the user, with the answers
    attrfile,    \* the content of the attributes file, once it is read
    depth,       \* gdac_new: nesting of create_workspace
    wfpos,       \* a generator run alone: the items it has read so far
    yielded      \* a generator run alone: the values it has yielded so far

vars == <<script, pc, exit, calls, log, spaces, absent, args, workspace, new, workflow,
          configs, attributes, ssets, sset, pending, globbed, prompts,
          attrfile, depth, wfpos, yielded>>

(* ------------------------------ bounds --------------------------------- *)

\* longest result of the remote sset_list call
MaxSsets == 2
\* most data rows in the attributes file
MaxAttrRows == 2
\* most attribute columns (after the key column) in the attributes file
MaxAttrCols == 1
\* most loadfiles of one entity type that glob() finds
MaxLoadfiles == 2
\* deepest nesting of create_workspace calls
MaxDepth == 2
\* longest --entities list
MaxEntities == 2
\* longest line of the exhaustively enumerated one-line DOT files
MaxLineLen == 4
\* most lines of a DOT file built from the sample lines
MaxLines == 2

(* ------------------------------ strings -------------------------------- *)

Q  == "\""
NL == "\n"

IsSpace(c) == c \in {" ", NL, "\t"}

RECURSIVE LStrip(_)
LStrip(s) ==
    IF s # <<>> /\ IsSpace(Head(s)) THEN LStrip(Tail(s)) ELSE s

RECURSIVE RStrip(_)
RStrip(s) ==
    IF s # <<>> /\ IsSpace(s[Len(s)]) THEN RStrip(SubSeq(s, 1, Len(s) - 1)) ELSE s

\* str.strip()
Strip(s) == RStrip(LStrip(s))

RECURSIVE LStripChar(_, _)
LStripChar(s, c) ==
    IF s # <<>> /\ Head(s) = c THEN LStripChar(Tail(s), c) ELSE s

RECURSIVE RStripChar(_, _)
\* str.rstrip(c): every trailing c goes
RStripChar(s, c) ==
    IF s # <<>> /\ s[Len(s)] = c
    THEN RStripChar(SubSeq(s, 1, Len(s) - 1), c)
    ELSE s

\* str.strip(c)
StripChar(s, c) == RStripChar(LStripChar(s, c), c)

\* str.endswith(suf)
EndsWith(s, suf) ==
    /\ Len(suf) <= Len(s)
    /\ SubSeq(s, Len(s) - Len(suf) + 1, Len(s)) = suf

\* sub in s
Contains(s, sub) ==
    \E i \in 1..(Len(s) + 1) :
        /\ i + Len(sub) - 1 <= Len(s)
        /\ SubSeq(s, i, i + Len(sub) - 1) = sub

RECURSIVE Flatten(_)
Flatten(ss) == IF ss = <<>> THEN <<>> ELSE Head(ss) \o Flatten(Tail(ss))

RECURSIVE SeqsUpTo(_, _)
\* every sequence over S of length at most n
SeqsUpTo(S, n) ==
    IF n = 0 THEN {<<>>}
    ELSE LET shorter == SeqsUpTo(S, n - 1)
         IN  shorter \cup {Append(s, x) : s \in shorter, x \in S}

Range(s) == {s[i] : i \in DOMAIN s}

NoDup(s) == \A i, j \in DOMAIN s : i # j => s[i] # s[j]

(* --------------------------- get_configs ------------------------------- *)

\* the test of one line: it yields iff the stripped line ends in ';' and
\* holds no '->'
YieldsConfig(line) ==
    LET config == Strip(line)
    IN  EndsWith(config, <<";">>) /\ ~Contains(config, <<"-", ">">>)

\* ConfigOf with the two strips in the other order
ConfigOfQuotesFirst(line) == RStripChar(StripChar(Strip(line), Q), ";")

\* what the line yields
ConfigOf(line) == StripChar(RStripChar(Strip(line), ";"), Q)

RECURSIVE get_configs(_)
\* the values the generator yields for the lines of a file, in order; the
\* lines are the file's lines as iteration returns them
get_configs(lines) ==
    IF lines = <<>> THEN <<>>
    ELSE (IF YieldsConfig(Head(lines)) THEN <<ConfigOf(Head(lines))>> ELSE <<>>)
         \o get_configs(Tail(lines))

\* iterating a text file returns each line with its newline
FileLines(file) == [i \in DOMAIN file |-> Append(file[i], NL)]

(* ----------------------- names and program constants ------------------- *)

\* the datestamp argument (analyses_new: -d; stddata_new: the basename of
\* the loadfile directory)
datestamp == <<"2018_08_24">>

\* 'stddata__' + datestamp
StddataName == <<"stddata__">> \o datestamp

\* the names of the sample sets the remote workspace may list
SsetNames ==
    { <<"TCGA", "-", "ACC", "-", "TP">>,
      <<"TCGA", "-", "LAML", "-", "TB">>,
      <<"TCGA", "-", "SKCM", "-", "TP">>,
      <<"TCGA", "-", "STES", "-", "TP">>,
      <<"TCGA", "-", "ACC", "-", "NB">>,
      <<"TCGA", "-", "SKCM", "-", "TM">>,
      <<"TP">> }

\* the keys the attributes file may hold in its first column
AttrKeys == { <<"TCGA", "-", "ACC", "-", "TP">>, <<"TCGA", "-", "LAML", "-", "TB">> }

\* the cell values of the attributes file: every row has its own
AttrValues == <<"v1", "v2", "v3", "v4">>

\* the header of the attributes file: the key column, then attribute columns
AttrFieldNames == <<"sample_set_id", "attr1", "attr2", "attr3", "attr4">>

\* --ssets values
UserSsetLists ==
    { << <<"TCGA", "-", "ACC", "-", "TP">> >>,
      << <<"TCGA", "-", "LAML", "-", "TB">>, <<"TCGA", "-", "ACC", "-", "TP">> >>,
      << <<"TP">> >> }

\* DOT workflow files, as sequences of lines without their newline
DotStddata ==
    << <<"digraph", " ", "{">>,
       <<" ", Q, "c1", Q, ";">>,
       <<" ", Q, "c2", Q, ";">>,
       <<" ", Q, "c1", Q, " ", "-", ">", " ", Q, "c2", Q, ";">>,
       <<"}">> >>

DotAnalyses ==
    << <<"digraph", " ", "{">>,
       <<Q, "c3", Q, ";", " ">>,
       <<"}">> >>

DotEmpty == << <<"digraph", " ", "{">>, <<"}">> >>

\* a DOT file on disk: its path and its lines
stddata_dot  == [name |-> "stddata.dot", lines |-> DotStddata]
analyses_dot == [name |-> "Analyses.dot", lines |-> DotAnalyses]
empty_dot    == [name |-> "empty.dot", lines |-> DotEmpty]

\* the files the -w option may name
WorkflowFiles == {stddata_dot, analyses_dot, empty_dot}

\* os.getuser()
username == <<"u">>

\* the cohort argument of gdac_new
cohort == <<"c">>

\* names typed at gdac_new's -s option and at its input() prompt
InputNames == { <<"x">>, <<"u">> }

None == [isNone |-> TRUE, v |-> <<>>]
Some(x) == [isNone |-> FALSE, v |-> x]

(* ----------------------------- remote calls ---------------------------- *)

\* one fissfc() call as issued: the command, the workspace it names, the
\* entity or file it names, its other arguments, and how it returned
Call(op, ws, ent, arg, ret) ==
    [op |-> op, ws |-> ws, ent |-> ent, arg |-> arg, ret |-> ret]

Bool(b) == IF b THEN "true" ELSE "false"

\* the call returns normally
Returned(c, nextpc) ==
    /\ calls' = Append(calls, c)
    /\ pc' = nextpc
    /\ exit' = exit

\* the call raises and nothing catches it: the interpreter ends the run
Raised(c) ==
    /\ calls' = Append(calls, [c EXCEPT !.ret = "raised"])
    /\ pc' = "exited"
    /\ exit' = "exception"

\* the answers space_exists may give for a workspace: the one the run
\* already knows, either one for a workspace it has not yet asked about
Exists(name) ==
    {e \in BOOLEAN : (name \in spaces => e) /\ (name \in absent => ~e)}

\* what the run knows of the workspace after the answer
Learn(name, e) ==
    /\ spaces' = IF e THEN spaces \cup {name} ELSE spaces
    /\ absent' = IF e THEN absent ELSE absent \cup {name}

\* sys.exit(status)
SysExit(status) ==
    /\ pc' = "exited"
    /\ exit' = status

(* --------------------------- analyses_new ------------------------------ *)

\* str.lower() of one word
LowerWord(w) ==
    CASE w = "TCGA" -> "tcga"
      [] w = "ACC"  -> "acc"
      [] w = "LAML" -> "laml"
      [] w = "SKCM" -> "skcm"
      [] w = "STES" -> "stes"
      [] w = "TP"   -> "tp"
      [] w = "TB"   -> "tb"
      [] w = "TM"   -> "tm"
      [] w = "NB"   -> "nb"
      [] OTHER      -> w

\* str.lower()
Lower(s) == [i \in DOMAIN s |-> LowerWord(s[i])]

RECURSIVE Split(_, _)
\* str.split(sep) for a one-character sep: the fields between the seps
Split(s, sep) ==
    IF \A i \in DOMAIN s : s[i] # sep THEN <<s>>
    ELSE LET i == CHOOSE k \in DOMAIN s :
                      s[k] = sep /\ \A j \in 1..(k - 1) : s[j] # sep
         IN  <<SubSeq(s, 1, i - 1)>> \o Split(SubSeq(s, i + 1, Len(s)), sep)

RECURSIVE Join(_, _)
\* sep.join(fields)
Join(fields, sep) ==
    IF fields = <<>> THEN <<>>
    ELSE IF Len(fields) = 1 THEN fields[1]
    ELSE fields[1] \o sep \o Join(Tail(fields), sep)

\* remove_suffix: len() is applied to the comparison name_fields > 2, not to
\* name_fields. Python 3 raises TypeError at the comparison of a list with
\* an int; Python 2 evaluates it to True and raises TypeError at len(True).
\* No call returns.
remove_suffix(sset_name) ==
    LET name_fields == Split(sset_name, "-")
    IN  [raised |-> TRUE, value |-> <<>>]

\* the rank of a word in sorted() order (upper case before '_' before lower)
WordOrder == <<"-", "2018_08_24", "ACC", "LAML", "NB", "SKCM", "STES", "TB", "TCGA",
               "TM", "TP", "_", "__", "acc", "analyses", "awg_", "laml", "nb",
               "skcm", "stes", "tb", "tcga", "tm", "tp">>

Rank(w) == CHOOSE i \in DOMAIN WordOrder : WordOrder[i] = w

RECURSIVE StrLess(_, _)
\* a < b for strings
StrLess(a, b) ==
    IF b = <<>> THEN FALSE
    ELSE IF a = <<>> THEN TRUE
    ELSE IF Head(a) = Head(b) THEN StrLess(Tail(a), Tail(b))
    ELSE Rank(Head(a)) < Rank(Head(b))

\* sorted(set(S))
Sorted(S) ==
    CHOOSE s \in [1..Cardinality(S) -> S] :
        /\ Range(s) = S
        /\ \A i, j \in DOMAIN s : i < j => StrLess(s[i], s[j])

\* the analyses workspace name computed from the arguments (lines 127-133);
\* raised when a remove_suffix call raised
AnalysesName(user_ssets) ==
    IF user_ssets.isNone
    THEN [raised |-> FALSE, value |-> <<"analyses", "__">> \o datestamp]
    ELSE LET rs == [i \in DOMAIN user_ssets.v |-> remove_suffix(user_ssets.v[i])]
         IN  IF \E i \in DOMAIN rs : rs[i].raised
             THEN [raised |-> TRUE, value |-> <<>>]
             ELSE [raised |-> FALSE,
                   value  |-> <<"awg_">>
                              \o Join(Sorted({Lower(rs[i].value) : i \in DOMAIN rs}),
                                      <<"_">>)
                              \o <<"__">> \o datestamp]

\* what analyses_sset_list does with one listed sample set: "yield", "skip",
\* or "raise" (IndexError at split('-')[-2] of a name without a hyphen)
SsetVisit(s, user_ssets) ==
    IF ~user_ssets.isNone
    THEN (IF s \in Range(user_ssets.v) THEN "yield" ELSE "skip")
    ELSE LET sset_lower == Lower(s)
             fields     == Split(sset_lower, "-")
         IN  IF Len(fields) < 2 THEN "raise"
             ELSE LET sset_cohort == fields[Len(fields) - 1]
                  IN  IF sset_cohort \in {<<"stes">>, <<"gbmlgg">>, <<"kipan">>, <<"pangi">>}
                      THEN "skip"
                      ELSE IF EndsWith(sset_lower, <<"laml", "-", "tb">>) THEN "yield"
                      ELSE IF EndsWith(sset_lower, <<"skcm", "-", "tm">>) THEN "yield"
                      ELSE IF /\ EndsWith(sset_lower, <<"-", "tp">>)
                              /\ sset_cohort \notin {<<"skcm">>, <<"laml">>}
                           THEN "yield"
                      ELSE "skip"

\* the attributes files: a header of distinct column names and rows of as
\* many cells, the first cell a key
AttrFiles ==
    { [fieldnames |-> SubSeq(AttrFieldNames, 1, c + 1),
       rows       |-> [i \in DOMAIN keys |->
                         <<keys[i]>> \o [j \in 1..c |-> <<AttrValues[i]>>]]] :
      keys \in SeqsUpTo(AttrKeys, MaxAttrRows), c \in 0..MaxAttrCols }

\* load_attributes keeping every column, the key column too
load_attributes_all(file) ==
    LET fieldnames == file.fieldnames
        rows       == file.rows
        last(k)    == CHOOSE i \in DOMAIN rows :
                          /\ rows[i][1] = k
                          /\ \A j \in DOMAIN rows : rows[j][1] = k => j <= i
        col(f)     == CHOOSE j \in DOMAIN fieldnames : fieldnames[j] = f
    IN  [k \in {rows[i][1] : i \in DOMAIN rows} |->
            [f \in Range(fieldnames) |-> rows[last(k)][col(f)]]]

\* load_attributes: key -> {field: value}; a later row of a key replaces an
\* earlier one
load_attributes(file) ==
    LET fieldnames == file.fieldnames
        rows       == file.rows
        last(k)    == CHOOSE i \in DOMAIN rows :
                          /\ rows[i][1] = k
                          /\ \A j \in DOMAIN rows : rows[j][1] = k => j <= i
        col(f)     == CHOOSE j \in DOMAIN fieldnames : fieldnames[j] = f
    IN  [k \in {rows[i][1] : i \in DOMAIN rows} |->
            [f \in Range(Tail(fieldnames)) |-> rows[last(k)][col(f)]]]

\* dict.items()
Items(d) == {<<f, d[f]>> : f \in DOMAIN d}

\* the results the remote sset_list call may return
SsetLists == {l \in SeqsUpTo(SsetNames, MaxSsets) : NoDup(l)}

\* the command line of analyses_new after parse_args (lines 115-125)
AnalysesArgs ==
    { [user_ssets |-> u, workflow |-> w, isdir |-> TRUE, workspace |-> None,
       entities |-> None] :
      u \in {None} \cup {Some(l) : l \in UserSsetLists}, w \in WorkflowFiles }

\* lines 126-133: stddata and analyses are named
An_Names ==
    /\ script = "analyses_new" /\ pc = "start"
    /\ LET name == AnalysesName(args.user_ssets)
       IN  IF name.raised
           THEN /\ pc' = "exited" /\ exit' = "exception"
                /\ UNCHANGED workspace
           ELSE /\ pc' = "check_stddata" /\ exit' = exit
                /\ workspace' = name.value
    /\ UNCHANGED <<script, calls, log, spaces, absent, args, new, workflow,
                   configs, attributes, ssets, sset, pending, globbed,
                   depth, wfpos, yielded, prompts, attrfile>>

\* An_StddataExists without the sys.exit(1) of line 138
An_StddataExistsNoExit ==
    /\ script = "analyses_new" /\ pc = "check_stddata"
    /\ \E e \in Exists(StddataName) :
          LET c == Call("space_exists", StddataName, <<>>, <<>>, Bool(e))
          IN  \/ /\ e
                 /\ Returned(c, "check_analyses")
                 /\ Learn(StddataName, e)
                 /\ log' = log
              \/ /\ ~e
                 /\ calls' = Append(calls, c)
                 /\ Learn(StddataName, e)
                 /\ log' = Append(log, "Invalid workspace")
                 /\ pc' = "check_analyses" /\ exit' = exit
              \/ /\ Raised(c)
                 /\ UNCHANGED <<spaces, absent, log>>
    /\ UNCHANGED <<script, args, workspace, new, workflow, configs, attributes,
                   ssets, sset, pending, globbed, depth, wfpos, yielded,
                   prompts, attrfile>>

\* lines 135-138: the stddata workspace must exist
An_StddataExists ==
    /\ script = "analyses_new" /\ pc = "check_stddata"
    /\ \E e \in Exists(StddataName) :
          LET c == Call("space_exists", StddataName, <<>>, <<>>, Bool(e))
          IN  \/ /\ e
                 /\ Returned(c, "check_analyses")
                 /\ Learn(StddataName, e)
                 /\ log' = log
              \/ /\ ~e
                 /\ calls' = Append(calls, c)
                 /\ Learn(StddataName, e)
                 /\ log' = Append(log, "Invalid workspace")
                 /\ SysExit("1")
              \/ /\ Raised(c)
                 /\ UNCHANGED <<spaces, absent, log>>
    /\ UNCHANGED <<script, args, workspace, new, workflow, configs, attributes,
                   ssets, sset, pending, globbed, depth, wfpos, yielded,
                   prompts, attrfile>>

\* lines 140-141: does the analyses workspace exist
An_AnalysesExists ==
    /\ script = "analyses_new" /\ pc = "check_analyses"
    /\ \E e \in Exists(workspace) :
          LET c == Call("space_exists", workspace, <<>>, <<>>, Bool(e))
          IN  \/ /\ Returned(c, IF e THEN "ask" ELSE "space_new")
                 /\ Learn(workspace, e)
              \/ /\ Raised(c)
                 /\ UNCHANGED <<spaces, absent>>
    /\ UNCHANGED <<script, log, args, workspace, new, workflow, configs,
                   attributes, ssets, sset, pending, globbed, depth,
                   wfpos, yielded, prompts, attrfile>>

\* An_Ask without the space_delete call of line 145
An_AskNoDelete ==
    /\ script = "analyses_new" /\ pc = "ask"
    /\ \E answer \in BOOLEAN :
          /\ prompts' = Append(prompts, [q |-> "delete", ws |-> workspace,
                                         answer |-> answer])
          /\ IF answer
             THEN /\ pc' = "space_new" /\ exit' = exit
                  /\ log' = log
             ELSE /\ log' = Append(log, "User chose not to delete existing space")
                  /\ SysExit("0")
    /\ UNCHANGED <<script, calls, spaces, absent, args, workspace, new,
                   workflow, configs, attributes, ssets, sset, pending,
                   globbed, depth, wfpos, yielded, attrfile>>

\* lines 142-148: the user is asked whether to delete the workspace
An_Ask ==
    /\ script = "analyses_new" /\ pc = "ask"
    /\ \E answer \in BOOLEAN :
          /\ prompts' = Append(prompts, [q |-> "delete", ws |-> workspace,
                                         answer |-> answer])
          /\ IF answer
             THEN /\ pc' = "space_delete" /\ exit' = exit
                  /\ log' = log
             ELSE /\ log' = Append(log, "User chose not to delete existing space")
                  /\ SysExit("0")
    /\ UNCHANGED <<script, calls, spaces, absent, args, workspace, new,
                   workflow, configs, attributes, ssets, sset, pending,
                   globbed, depth, wfpos, yielded, attrfile>>

\* line 145
An_SpaceDelete ==
    /\ script = "analyses_new" /\ pc = "space_delete"
    /\ LET c == Call("space_delete", workspace, <<>>, <<>>, "ok")
       IN  \/ /\ Returned(c, "space_new")
              /\ spaces' = spaces \ {workspace}
              /\ absent' = absent \cup {workspace}
           \/ /\ Raised(c)
              /\ UNCHANGED <<spaces, absent>>
    /\ UNCHANGED <<script, log, args, workspace, new, workflow, configs,
                   attributes, ssets, sset, pending, globbed, depth,
                   wfpos, yielded, prompts, attrfile>>

\* lines 151-152
An_SpaceNew ==
    /\ script = "analyses_new" /\ pc = "space_new"
    /\ LET c == Call("space_new", workspace, <<>>, <<>>, "ok")
       IN  \/ /\ Returned(c, "set_acl")
              /\ spaces' = spaces \cup {workspace}
              /\ absent' = absent \ {workspace}
           \/ /\ Raised(c)
              /\ UNCHANGED <<spaces, absent>>
    /\ UNCHANGED <<script, log, args, workspace, new, workflow, configs,
                   attributes, ssets, sset, pending, globbed, depth,
                   wfpos, yielded, prompts, attrfile>>

\* lines 156-159
An_SetAcl ==
    /\ script = "analyses_new" /\ pc = "set_acl"
    /\ LET c == Call("space_set_acl", workspace, <<>>, <<"OWNER">>, "ok")
       IN  \/ Returned(c, "attr_data_version")
           \/ Raised(c)
    /\ UNCHANGED <<script, log, spaces, absent, args, workspace, new, workflow,
                   configs, attributes, ssets, sset, pending, globbed,
                   depth, wfpos, yielded, prompts, attrfile>>

\* lines 162-164
An_AttrDataVersion ==
    /\ script = "analyses_new" /\ pc = "attr_data_version"
    /\ LET c == Call("attr_set", workspace, <<>>,
                     <<"data_version">> \o datestamp, "ok")
       IN  \/ Returned(c, "attr_package")
           \/ Raised(c)
    /\ UNCHANGED <<script, log, spaces, absent, args, workspace, new, workflow,
                   configs, attributes, ssets, sset, pending, globbed,
                   depth, wfpos, yielded, prompts, attrfile>>

\* lines 166-168, and the start of the loop of line 174
An_AttrPackage ==
    /\ script = "analyses_new" /\ pc = "attr_package"
    /\ LET c == Call("attr_set", workspace, <<>>, <<"package", "true">>, "ok")
       IN  \/ /\ Returned(c, "config_copy")
              /\ configs' = get_configs(FileLines(workflow.lines))
           \/ /\ Raised(c)
              /\ configs' = configs
    /\ UNCHANGED <<script, log, spaces, absent, args, workspace, new, workflow,
                   attributes, ssets, sset, pending, globbed, depth,
                   wfpos, yielded, prompts, attrfile>>

\* lines 174-176: one iteration of the loop over get_configs(workflow)
An_ConfigCopy ==
    /\ script = "analyses_new" /\ pc = "config_copy"
    /\ configs # <<>>
    /\ LET c == Call("config_copy", workspace, Head(configs), <<>>, "ok")
       IN  \/ /\ Returned(c, "config_copy")
              /\ configs' = Tail(configs)
           \/ /\ Raised(c)
              /\ configs' = configs
    /\ UNCHANGED <<script, log, spaces, absent, args, workspace, new, workflow,
                   attributes, ssets, sset, pending, globbed, depth,
                   wfpos, yielded, prompts, attrfile>>

\* lines 179-180: the loop is over; the attributes file is read
An_LoadAttributes ==
    /\ script = "analyses_new" /\ pc = "config_copy"
    /\ configs = <<>>
    /\ \E file \in AttrFiles :
          /\ attrfile' = file
          /\ attributes' = load_attributes(file)
    /\ pc' = "sset_list"
    /\ UNCHANGED <<script, exit, calls, log, spaces, absent, args, workspace,
                   new, workflow, configs, ssets, sset, pending, globbed,
                   depth, wfpos, yielded, prompts>>

\* line 30, run when the loop of line 187 first advances the generator
An_SsetList ==
    /\ script = "analyses_new" /\ pc = "sset_list"
    /\ LET c == Call("sset_list", StddataName, <<>>, <<>>, "ok")
       IN  \/ /\ Returned(c, "sset_next")
              /\ \E l \in SsetLists : ssets' = l
           \/ /\ Raised(c)
              /\ ssets' = ssets
    /\ UNCHANGED <<script, log, spaces, absent, args, workspace, new, workflow,
                   configs, attributes, sset, pending, globbed, depth,
                   wfpos, yielded, prompts, attrfile>>

\* lines 31-46: the generator visits the next listed sample set
An_SsetNext ==
    /\ script = "analyses_new" /\ pc = "sset_next"
    /\ ssets # <<>>
    /\ LET visit == SsetVisit(Head(ssets), args.user_ssets)
       IN  /\ pc' = CASE visit = "yield" -> "entity_copy"
                      [] visit = "skip"  -> "sset_next"
                      [] OTHER           -> "exited"
           /\ exit' = IF visit = "raise" THEN "exception" ELSE exit
           /\ sset' = IF visit = "yield" THEN Head(ssets) ELSE sset
    /\ ssets' = Tail(ssets)
    /\ UNCHANGED <<script, calls, log, spaces, absent, args, workspace, new,
                   workflow, configs, attributes, pending, globbed,
                   depth, wfpos, yielded, prompts, attrfile>>

\* lines 188-192: the sample set is copied; its attributes, if any, are next
An_EntityCopy ==
    /\ script = "analyses_new" /\ pc = "entity_copy"
    /\ LET c == Call("entity_copy", workspace, sset, <<"sample_set">>, "ok")
       IN  \/ /\ sset \in DOMAIN attributes
              /\ Returned(c, "sset_attr")
              /\ pending' = Items(attributes[sset])
           \/ /\ sset \notin DOMAIN attributes
              /\ Returned(c, "sset_next")
              /\ pending' = pending
           \/ /\ Raised(c)
              /\ pending' = pending
    /\ UNCHANGED <<script, log, spaces, absent, args, workspace, new, workflow,
                   configs, attributes, ssets, sset, globbed, depth,
                   wfpos, yielded, prompts, attrfile>>

\* lines 192-194: one iteration of the loop over attributes[sset].items()
An_SsetAttr ==
    /\ script = "analyses_new" /\ pc = "sset_attr"
    /\ \E item \in pending :
          LET c == Call("attr_set", workspace, sset, <<item[1]>> \o item[2], "ok")
          IN  \/ /\ Returned(c, "sset_attr")
                 /\ pending' = pending \ {item}
              \/ /\ Raised(c)
                 /\ pending' = pending
    /\ UNCHANGED <<script, log, spaces, absent, args, workspace, new, workflow,
                   configs, attributes, ssets, sset, globbed, depth,
                   wfpos, yielded, prompts, attrfile>>

\* the loop over the items is over
An_SsetAttrDone ==
    /\ script = "analyses_new" /\ pc = "sset_attr"
    /\ pending = {}
    /\ pc' = "sset_next"
    /\ UNCHANGED <<script, exit, calls, log, spaces, absent, args, workspace,
                   new, workflow, configs, attributes, ssets, sset,
                   pending, globbed, depth, wfpos, yielded, prompts,
                   attrfile>>

\* An_Supervise with the call indented into the loop of line 187
An_SuperviseInLoop ==
    /\ script = "analyses_new" /\ pc = "sset_next"
    /\ LET c == Call("supervise", workspace, <<"~/.fiss/Analyses.json">>,
                     <<workflow.name>>, "ok")
       IN  \/ Returned(c, IF ssets = <<>> THEN "done" ELSE "sset_next")
           \/ Raised(c)
    /\ UNCHANGED <<script, log, spaces, absent, args, workspace, new, workflow,
                   configs, attributes, ssets, sset, pending, globbed,
                   depth, wfpos, yielded, prompts, attrfile>>

\* lines 197-198: the generator is exhausted; the supervisor is started
An_Supervise ==
    /\ script = "analyses_new" /\ pc = "sset_next"
    /\ ssets = <<>>
    /\ LET c == Call("supervise", workspace, <<"~/.fiss/Analyses.json">>,
                     <<workflow.name>>, "ok")
       IN  \/ Returned(c, "done")
           \/ Raised(c)
    /\ UNCHANGED <<script, log, spaces, absent, args, workspace, new, workflow,
                   configs, attributes, ssets, sset, pending, globbed,
                   depth, wfpos, yielded, prompts, attrfile>>

analyses_new ==
    \/ An_Names
    \/ An_StddataExists
    \/ An_AnalysesExists
    \/ An_Ask
    \/ An_SpaceDelete
    \/ An_SpaceNew
    \/ An_SetAcl
    \/ An_AttrDataVersion
    \/ An_AttrPackage
    \/ An_ConfigCopy
    \/ An_LoadAttributes
    \/ An_SsetList
    \/ An_SsetNext
    \/ An_EntityCopy
    \/ An_SsetAttr
    \/ An_SsetAttrDone
    \/ An_Supervise

(* ---------------------------- stddata_new ------------------------------ *)

\* the command line of stddata_new after parse_args (lines 56-67); isdir is
\* whether the loadfile directory exists
StddataArgs ==
    { [user_ssets |-> None, workflow |-> w, isdir |-> d, workspace |-> None,
       entities |-> None] :
      w \in WorkflowFiles, d \in BOOLEAN }

\* the cohorts whose loadfiles the directory may hold
CohortWords == <<"TCGA-ACC", "TCGA-LAML", "TCGA-SKCM", "TCGA-STES">>

Cohorts == {CohortWords[i] : i \in 1..MaxLoadfiles}

\* glob(os.path.join(loadfiles, '*-*.<etype>.loadfile.txt')): the matching
\* files, in the order the directory gives them
Glob(etype) ==
    { [i \in DOMAIN l |-> <<l[i], ".", etype, ".loadfile.txt">>] :
      l \in {m \in SeqsUpTo(Cohorts, MaxLoadfiles) : NoDup(m)} }

\* lines 69-72
Sd_IsDir ==
    /\ script = "stddata_new" /\ pc = "start"
    /\ IF args.isdir
       THEN /\ pc' = "space_exists" /\ exit' = exit
            /\ log' = log
       ELSE /\ log' = Append(log, "was not found")
            /\ SysExit("1")
    /\ UNCHANGED <<script, calls, spaces, absent, args, workspace, new,
                   workflow, configs, attributes, ssets, sset, pending,
                   globbed, depth, wfpos, yielded, prompts, attrfile>>

\* lines 74-75
Sd_SpaceExists ==
    /\ script = "stddata_new" /\ pc = "space_exists"
    /\ \E e \in Exists(workspace) :
          LET c == Call("space_exists", workspace, <<>>, <<>>, Bool(e))
          IN  \/ /\ Returned(c, IF e THEN "ask" ELSE "space_new")
                 /\ Learn(workspace, e)
              \/ /\ Raised(c)
                 /\ UNCHANGED <<spaces, absent>>
    /\ UNCHANGED <<script, log, args, workspace, new, workflow, configs,
                   attributes, ssets, sset, pending, globbed, depth,
                   wfpos, yielded, prompts, attrfile>>

\* Sd_Ask without the sys.exit() of line 82
Sd_AskNoExit ==
    /\ script = "stddata_new" /\ pc = "ask"
    /\ \E answer \in BOOLEAN :
          /\ prompts' = Append(prompts, [q |-> "delete", ws |-> workspace,
                                         answer |-> answer])
          /\ IF answer
             THEN /\ pc' = "space_delete" /\ exit' = exit
                  /\ log' = log
             ELSE /\ log' = Append(log, "User chose not to delete existing space")
                  /\ pc' = "space_new" /\ exit' = exit
    /\ UNCHANGED <<script, calls, spaces, absent, args, workspace, new,
                   workflow, configs, attributes, ssets, sset, pending,
                   globbed, depth, wfpos, yielded, attrfile>>

\* lines 76-82
Sd_Ask ==
    /\ script = "stddata_new" /\ pc = "ask"
    /\ \E answer \in BOOLEAN :
          /\ prompts' = Append(prompts, [q |-> "delete", ws |-> workspace,
                                         answer |-> answer])
          /\ IF answer
             THEN /\ pc' = "space_delete" /\ exit' = exit
                  /\ log' = log
             ELSE /\ log' = Append(log, "User chose not to delete existing space")
                  /\ SysExit("0")
    /\ UNCHANGED <<script, calls, spaces, absent, args, workspace, new,
                   workflow, configs, attributes, ssets, sset, pending,
                   globbed, depth, wfpos, yielded, attrfile>>

\* line 79
Sd_SpaceDelete ==
    /\ script = "stddata_new" /\ pc = "space_delete"
    /\ LET c == Call("space_delete", workspace, <<>>, <<>>, "ok")
       IN  \/ /\ Returned(c, "space_new")
              /\ spaces' = spaces \ {workspace}
              /\ absent' = absent \cup {workspace}
           \/ /\ Raised(c)
              /\ UNCHANGED <<spaces, absent>>
    /\ UNCHANGED <<script, log, args, workspace, new, workflow, configs,
                   attributes, ssets, sset, pending, globbed, depth,
                   wfpos, yielded, prompts, attrfile>>

\* lines 85-86
Sd_SpaceNew ==
    /\ script = "stddata_new" /\ pc = "space_new"
    /\ LET c == Call("space_new", workspace, <<>>, <<>>, "ok")
       IN  \/ /\ Returned(c, "set_acl")
              /\ spaces' = spaces \cup {workspace}
              /\ absent' = absent \ {workspace}
           \/ /\ Raised(c)
              /\ UNCHANGED <<spaces, absent>>
    /\ UNCHANGED <<script, log, args, workspace, new, workflow, configs,
                   attributes, ssets, sset, pending, globbed, depth,
                   wfpos, yielded, prompts, attrfile>>

\* Sd_SetAcl with the config loop moved ahead of the annotations
Sd_SetAclThenConfigs ==
    /\ script = "stddata_new" /\ pc = "set_acl"
    /\ LET c == Call("space_set_acl", workspace, <<>>, <<"OWNER">>, "ok")
       IN  \/ /\ Returned(c, "config_copy")
              /\ configs' = get_configs(FileLines(workflow.lines))
           \/ /\ Raised(c)
              /\ configs' = configs
    /\ UNCHANGED <<script, log, spaces, absent, args, workspace, new, workflow,
                   attributes, ssets, sset, pending, globbed,
                   depth, wfpos, yielded, prompts, attrfile>>

\* lines 90-93
Sd_SetAcl ==
    /\ script = "stddata_new" /\ pc = "set_acl"
    /\ LET c == Call("space_set_acl", workspace, <<>>, <<"OWNER">>, "ok")
       IN  \/ Returned(c, "attr_data_version")
           \/ Raised(c)
    /\ UNCHANGED <<script, log, spaces, absent, args, workspace, new, workflow,
                   configs, attributes, ssets, sset, pending, globbed,
                   depth, wfpos, yielded, prompts, attrfile>>

\* lines 96-98
Sd_AttrDataVersion ==
    /\ script = "stddata_new" /\ pc = "attr_data_version"
    /\ LET c == Call("attr_set", workspace, <<>>,
                     <<"data_version">> \o datestamp, "ok")
       IN  \/ Returned(c, "attr_package")
           \/ Raised(c)
    /\ UNCHANGED <<script, log, spaces, absent, args, workspace, new, workflow,
                   configs, attributes, ssets, sset, pending, globbed,
                   depth, wfpos, yielded, prompts, attrfile>>

\* lines 100-102, and the start of the loop of line 107
Sd_AttrPackage ==
    /\ script = "stddata_new" /\ pc = "attr_package"
    /\ LET c == Call("attr_set", workspace, <<>>, <<"package", "true">>, "ok")
       IN  \/ /\ Returned(c, "config_copy")
              /\ configs' = get_configs(FileLines(workflow.lines))
           \/ /\ Raised(c)
              /\ configs' = configs
    /\ UNCHANGED <<script, log, spaces, absent, args, workspace, new, workflow,
                   attributes, ssets, sset, pending, globbed, depth,
                   wfpos, yielded, prompts, attrfile>>

\* lines 107-109: one iteration of the loop over get_configs(workflow)
Sd_ConfigCopy ==
    /\ script = "stddata_new" /\ pc = "config_copy"
    /\ configs # <<>>
    /\ LET c == Call("config_copy", workspace, Head(configs), <<>>, "ok")
       IN  \/ /\ Returned(c, "config_copy")
              /\ configs' = Tail(configs)
           \/ /\ Raised(c)
              /\ configs' = configs
    /\ UNCHANGED <<script, log, spaces, absent, args, workspace, new, workflow,
                   attributes, ssets, sset, pending, globbed, depth,
                   wfpos, yielded, prompts, attrfile>>

\* lines 113-115: the loop is over; the participant loadfiles are globbed
Sd_GlobParticipants ==
    /\ script = "stddata_new" /\ pc = "config_copy"
    /\ configs = <<>>
    /\ globbed' \in Glob("Participant")
    /\ pc' = "participants"
    /\ UNCHANGED <<script, exit, calls, log, spaces, absent, args, workspace,
                   new, workflow, configs, attributes, ssets, sset,
                   pending, depth, wfpos, yielded, prompts, attrfile>>

\* lines 116-118: one participant loadfile is imported
Sd_ImportParticipants ==
    /\ script = "stddata_new" /\ pc = "participants"
    /\ globbed # <<>>
    /\ LET c == Call("entity_import", workspace, Head(globbed), <<>>, "ok")
       IN  \/ /\ Returned(c, "participants")
              /\ globbed' = Tail(globbed)
           \/ /\ Raised(c)
              /\ globbed' = globbed
    /\ UNCHANGED <<script, log, spaces, absent, args, workspace, new, workflow,
                   configs, attributes, ssets, sset, pending, depth,
                   wfpos, yielded, prompts, attrfile>>

\* lines 120-121
Sd_GlobSamples ==
    /\ script = "stddata_new" /\ pc = "participants"
    /\ globbed = <<>>
    /\ globbed' \in Glob("Sample")
    /\ pc' = "samples"
    /\ UNCHANGED <<script, exit, calls, log, spaces, absent, args, workspace,
                   new, workflow, configs, attributes, ssets, sset,
                   pending, depth, wfpos, yielded, prompts, attrfile>>

\* lines 122-123: one sample loadfile is imported
Sd_ImportSamples ==
    /\ script = "stddata_new" /\ pc = "samples"
    /\ globbed # <<>>
    /\ LET c == Call("entity_import", workspace, Head(globbed), <<>>, "ok")
       IN  \/ /\ Returned(c, "samples")
              /\ globbed' = Tail(globbed)
           \/ /\ Raised(c)
              /\ globbed' = globbed
    /\ UNCHANGED <<script, log, spaces, absent, args, workspace, new, workflow,
                   configs, attributes, ssets, sset, pending, depth,
                   wfpos, yielded, prompts, attrfile>>

\* Sd_GlobSampleSets with the pattern of the participants loop
Sd_GlobSampleSetsWrong ==
    /\ script = "stddata_new" /\ pc = "samples"
    /\ globbed = <<>>
    /\ globbed' \in Glob("Participant")
    /\ pc' = "sample_sets"
    /\ UNCHANGED <<script, exit, calls, log, spaces, absent, args, workspace,
                   new, workflow, configs, attributes, ssets, sset,
                   pending, depth, wfpos, yielded, prompts, attrfile>>

\* lines 125-127
Sd_GlobSampleSets ==
    /\ script = "stddata_new" /\ pc = "samples"
    /\ globbed = <<>>
    /\ globbed' \in Glob("Sample_Set")
    /\ pc' = "sample_sets"
    /\ UNCHANGED <<script, exit, calls, log, spaces, absent, args, workspace,
                   new, workflow, configs, attributes, ssets, sset,
                   pending, depth, wfpos, yielded, prompts, attrfile>>

\* lines 128-130: one sample set loadfile is imported
Sd_ImportSampleSets ==
    /\ script = "stddata_new" /\ pc = "sample_sets"
    /\ globbed # <<>>
    /\ LET c == Call("entity_import", workspace, Head(globbed), <<>>, "ok")
       IN  \/ /\ Returned(c, "sample_sets")
              /\ globbed' = Tail(globbed)
           \/ /\ Raised(c)
              /\ globbed' = globbed
    /\ UNCHANGED <<script, log, spaces, absent, args, workspace, new, workflow,
                   configs, attributes, ssets, sset, pending, depth,
                   wfpos, yielded, prompts, attrfile>>

\* lines 133-135
Sd_Supervise ==
    /\ script = "stddata_new" /\ pc = "sample_sets"
    /\ globbed = <<>>
    /\ LET c == Call("supervise", workspace, <<"~/.fiss/stddata.json">>,
                     <<workflow.name>>, "ok")
       IN  \/ Returned(c, "done")
           \/ Raised(c)
    /\ UNCHANGED <<script, log, spaces, absent, args, workspace, new, workflow,
                   configs, attributes, ssets, sset, pending, globbed,
                   depth, wfpos, yielded, prompts, attrfile>>

stddata_new ==
    \/ Sd_IsDir
    \/ Sd_SpaceExists
    \/ Sd_Ask
    \/ Sd_SpaceDelete
    \/ Sd_SpaceNew
    \/ Sd_SetAcl
    \/ Sd_AttrDataVersion
    \/ Sd_AttrPackage
    \/ Sd_ConfigCopy
    \/ Sd_GlobParticipants
    \/ Sd_ImportParticipants
    \/ Sd_GlobSamples
    \/ Sd_ImportSamples
    \/ Sd_GlobSampleSets
    \/ Sd_ImportSampleSets
    \/ Sd_Supervise

(* ----------------------------- gdac_new -------------------------------- *)

\* 'awg_' + args.cohort (line 151)
DefaultWorkspace == <<"a", "w", "g", "_">> \o cohort

\* workspace + '__' + username (line 48)
WithUser(name) == name \o <<"_", "_">> \o username

\* the sample sets the --entities option may name
EntityNames == { <<"TCGA", "-", "ACC", "-", "TP">>, <<"TCGA", "-", "SKCM", "-", "TP">> }

\* the command line of gdac_new after parse_args (line 139)
GdacArgs ==
    { [user_ssets |-> None, workflow |-> stddata_dot, isdir |-> TRUE,
       workspace |-> w, entities |-> e] :
      w \in {None} \cup {Some(n) : n \in InputNames},
      e \in {None} \cup {Some(l) : l \in SeqsUpTo(EntityNames, MaxEntities)} }

\* the truth value of args.entities: None and [] are false
HasEntities == ~args.entities.isNone /\ args.entities.v # <<>>

\* the three loadfiles of the cohort (lines 158-160)
Loadfile(etype) == cohort \o <<".", etype, ".loadfile.txt">>

\* the Python major versions the package declares support for (setup.py)
PythonVersions == {2, 3}

\* lines 149-153: the workspace is named and create_workspace is entered
Gd_Start ==
    /\ script = "gdac_new" /\ pc = "start"
    /\ workspace' = IF args.workspace.isNone THEN DefaultWorkspace
                    ELSE args.workspace.v
    /\ depth' = 1
    /\ pc' = "cw_space_exists"
    /\ UNCHANGED <<script, exit, calls, log, spaces, absent, args, new,
                   workflow, configs, attributes, ssets, sset, pending,
                   globbed, wfpos, yielded, prompts, attrfile>>

\* create_workspace, lines 41-44: does the workspace exist
Gd_CW_SpaceExists ==
    /\ script = "gdac_new" /\ pc = "cw_space_exists"
    /\ \E e \in Exists(workspace) :
          LET c == Call("space_exists", workspace, <<>>, <<>>, Bool(e))
          IN  \/ /\ Returned(c, IF ~e THEN "cw_space_new"
                                ELSE IF ~EndsWith(workspace, username)
                                     THEN "cw_ask_rename"
                                     ELSE "cw_ask_init")
                 /\ Learn(workspace, e)
              \/ /\ Raised(c)
                 /\ UNCHANGED <<spaces, absent>>
    /\ UNCHANGED <<script, log, args, workspace, new, workflow, configs,
                   attributes, ssets, sset, pending, globbed, depth,
                   wfpos, yielded, prompts, attrfile>>

\* Gd_CW_AskRename creating the renamed workspace without the recursive call
Gd_CW_AskRenameNoCheck ==
    /\ script = "gdac_new" /\ pc = "cw_ask_rename"
    /\ \E answer \in BOOLEAN :
          /\ prompts' = Append(prompts, [q |-> "rename", ws |-> workspace,
                                         answer |-> answer])
          /\ IF answer
             THEN /\ depth < MaxDepth
                  /\ workspace' = WithUser(workspace)
                  /\ depth' = depth
                  /\ pc' = "cw_space_new"
             ELSE /\ pc' = "cw_ask_init"
                  /\ UNCHANGED <<workspace, depth>>
    /\ UNCHANGED <<script, exit, calls, log, spaces, absent, args, new,
                   workflow, configs, attributes, ssets, sset, pending,
                   globbed, wfpos, yielded, attrfile>>

\* create_workspace, lines 44-48 and 55: use <workspace>__<username> instead?
Gd_CW_AskRename ==
    /\ script = "gdac_new" /\ pc = "cw_ask_rename"
    /\ \E answer \in BOOLEAN :
          /\ prompts' = Append(prompts, [q |-> "rename", ws |-> workspace,
                                         answer |-> answer])
          /\ IF answer
             THEN /\ depth < MaxDepth
                  /\ workspace' = WithUser(workspace)
                  /\ depth' = depth + 1
                  /\ pc' = "cw_space_exists"
             ELSE /\ pc' = "cw_ask_init"
                  /\ UNCHANGED <<workspace, depth>>
    /\ UNCHANGED <<script, exit, calls, log, spaces, absent, args, new,
                   workflow, configs, attributes, ssets, sset, pending,
                   globbed, wfpos, yielded, attrfile>>

\* create_workspace, lines 49-52: initialize the run in the existing one?
Gd_CW_AskInit ==
    /\ script = "gdac_new" /\ pc = "cw_ask_init"
    /\ \E answer \in BOOLEAN :
          /\ prompts' = Append(prompts, [q |-> "init", ws |-> workspace,
                                         answer |-> answer])
          /\ IF answer
             THEN /\ new' = FALSE
                  /\ pc' = "branch"
             ELSE /\ pc' = "cw_input"
                  /\ new' = new
    /\ UNCHANGED <<script, exit, calls, log, spaces, absent, args, workspace,
                   workflow, configs, attributes, ssets, sset, pending,
                   globbed, depth, wfpos, yielded, attrfile>>

\* create_workspace, lines 53-55: the user types another name
Gd_CW_Input ==
    /\ script = "gdac_new" /\ pc = "cw_input"
    /\ depth < MaxDepth
    /\ workspace' \in InputNames
    /\ depth' = depth + 1
    /\ pc' = "cw_space_exists"
    /\ UNCHANGED <<script, exit, calls, log, spaces, absent, args, new,
                   workflow, configs, attributes, ssets, sset, pending,
                   globbed, wfpos, yielded, prompts, attrfile>>

\* create_workspace, lines 58-62: the workspace is created
Gd_CW_SpaceNew ==
    /\ script = "gdac_new" /\ pc = "cw_space_new"
    /\ LET c == Call("space_new", workspace, <<>>, <<>>, "ok")
       IN  \/ /\ Returned(c, "branch")
              /\ spaces' = spaces \cup {workspace}
              /\ absent' = absent \ {workspace}
              /\ new' = TRUE
           \/ /\ Raised(c)
              /\ UNCHANGED <<spaces, absent, new>>
    /\ UNCHANGED <<script, log, args, workspace, workflow, configs, attributes,
                   ssets, sset, pending, globbed, depth, wfpos, yielded,
                   prompts, attrfile>>

\* lines 155, 194, 205-209: which run this is
Gd_Branch ==
    /\ script = "gdac_new" /\ pc = "branch"
    /\ \/ /\ new
          /\ log' = Append(log, "Initializing stddata run")
          /\ pc' = "loadfiles" /\ exit' = exit
       \/ /\ ~new /\ HasEntities
          /\ log' = Append(log, "Initializing analyses run")
          /\ pc' = "load_attributes" /\ exit' = exit
       \/ /\ ~new /\ ~HasEntities
          /\ log' = Append(log, "To use an existing workspace")
          /\ SysExit("fail_msg")
    /\ UNCHANGED <<script, calls, spaces, absent, args, workspace, new,
                   workflow, configs, attributes, ssets, sset, pending,
                   globbed, depth, wfpos, yielded, prompts, attrfile>>

\* Gd_Loadfiles going on after a loadfile was found missing
Gd_LoadfilesNoExit ==
    /\ script = "gdac_new" /\ pc = "loadfiles"
    /\ \E present \in SUBSET {"Participants", "Samples", "SampleSet"} :
          /\ pc' = "get_ssets" /\ exit' = exit
          /\ log' = IF present = {"Participants", "Samples", "SampleSet"}
                    THEN log
                    ELSE Append(log, "Loadfile not found")
    /\ UNCHANGED <<script, calls, spaces, absent, args, workspace, new,
                   workflow, configs, attributes, ssets, sset, pending,
                   globbed, depth, wfpos, yielded, prompts, attrfile>>

\* lines 158-165: the three loadfiles must exist
Gd_Loadfiles ==
    /\ script = "gdac_new" /\ pc = "loadfiles"
    /\ \E present \in SUBSET {"Participants", "Samples", "SampleSet"} :
          IF present = {"Participants", "Samples", "SampleSet"}
          THEN /\ pc' = "get_ssets" /\ exit' = exit
               /\ log' = log
          ELSE /\ log' = Append(log, "Loadfile not found")
               /\ SysExit("fail_msg")
    /\ UNCHANGED <<script, calls, spaces, absent, args, workspace, new,
                   workflow, configs, attributes, ssets, sset, pending,
                   globbed, depth, wfpos, yielded, prompts, attrfile>>

\* lines 167-170 and get_ssets: file.next() exists in Python 2 only
Gd_GetSsets ==
    /\ script = "gdac_new" /\ pc = "get_ssets"
    /\ \E py \in PythonVersions :
          IF py = 2
          THEN pc' = "acl_owner" /\ exit' = exit
          ELSE pc' = "exited" /\ exit' = "exception"
    /\ UNCHANGED <<script, calls, log, spaces, absent, args, workspace, new,
                   workflow, configs, attributes, ssets, sset, pending,
                   globbed, depth, wfpos, yielded, prompts, attrfile>>

\* set_acl(role, args), lines 64-70: space_set_acl is called when the
\* role's list of users is not empty
set_acl(role, nextpc) ==
    \E given \in BOOLEAN :
       IF given
       THEN LET c == Call("space_set_acl", workspace, <<>>, <<role>>, "ok")
            IN  \/ Returned(c, nextpc)
                \/ Raised(c)
       ELSE /\ pc' = nextpc
            /\ UNCHANGED <<exit, calls>>

\* line 172
Gd_AclOwner ==
    /\ script = "gdac_new" /\ pc = "acl_owner"
    /\ set_acl("OWNER", "acl_reader")
    /\ UNCHANGED <<script, log, spaces, absent, args, workspace, new, workflow,
                   configs, attributes, ssets, sset, pending, globbed,
                   depth, wfpos, yielded, prompts, attrfile>>

\* line 173
Gd_AclReader ==
    /\ script = "gdac_new" /\ pc = "acl_reader"
    /\ set_acl("READER", "acl_writer")
    /\ UNCHANGED <<script, log, spaces, absent, args, workspace, new, workflow,
                   configs, attributes, ssets, sset, pending, globbed,
                   depth, wfpos, yielded, prompts, attrfile>>

\* line 174
Gd_AclWriter ==
    /\ script = "gdac_new" /\ pc = "acl_writer"
    /\ set_acl("WRITER", "attr_package")
    /\ UNCHANGED <<script, log, spaces, absent, args, workspace, new, workflow,
                   configs, attributes, ssets, sset, pending, globbed,
                   depth, wfpos, yielded, prompts, attrfile>>

\* lines 177-179
Gd_AttrPackage ==
    /\ script = "gdac_new" /\ pc = "attr_package"
    /\ LET c == Call("attr_set", workspace, <<>>, <<"package", "true">>, "ok")
       IN  \/ Returned(c, "participants")
           \/ Raised(c)
    /\ UNCHANGED <<script, log, spaces, absent, args, workspace, new, workflow,
                   configs, attributes, ssets, sset, pending, globbed,
                   depth, wfpos, yielded, prompts, attrfile>>

\* lines 182-184
Gd_ImportParticipants ==
    /\ script = "gdac_new" /\ pc = "participants"
    /\ LET c == Call("entity_import", workspace, Loadfile("Participants"), <<>>, "ok")
       IN  \/ Returned(c, "samples")
           \/ Raised(c)
    /\ UNCHANGED <<script, log, spaces, absent, args, workspace, new, workflow,
                   configs, attributes, ssets, sset, pending, globbed,
                   depth, wfpos, yielded, prompts, attrfile>>

\* lines 186-188
Gd_ImportSamples ==
    /\ script = "gdac_new" /\ pc = "samples"
    /\ LET c == Call("entity_import", workspace, Loadfile("Samples"), <<>>, "ok")
       IN  \/ Returned(c, "sample_sets")
           \/ Raised(c)
    /\ UNCHANGED <<script, log, spaces, absent, args, workspace, new, workflow,
                   configs, attributes, ssets, sset, pending, globbed,
                   depth, wfpos, yielded, prompts, attrfile>>

\* lines 190-192, and the start of the loop of line 215
Gd_ImportSampleSets ==
    /\ script = "gdac_new" /\ pc = "sample_sets"
    /\ LET c == Call("entity_import", workspace, Loadfile("SampleSet"), <<>>, "ok")
       IN  \/ /\ Returned(c, "config_copy")
              /\ configs' = get_configs(FileLines(workflow.lines))
           \/ /\ Raised(c)
              /\ configs' = configs
    /\ UNCHANGED <<script, log, spaces, absent, args, workspace, new, workflow,
                   attributes, ssets, sset, pending, globbed, depth,
                   wfpos, yielded, prompts, attrfile>>

\* Gd_LoadAttributes keeping the stddata workflow
Gd_LoadAttributesKeepWorkflow ==
    /\ script = "gdac_new" /\ pc = "load_attributes"
    /\ workflow' = workflow
    /\ \E file \in AttrFiles :
          /\ attrfile' = file
          /\ attributes' = load_attributes(file)
    /\ ssets' = args.entities.v
    /\ pc' = "entity_next"
    /\ UNCHANGED <<script, exit, calls, log, spaces, absent, args, workspace,
                   new, configs, sset, pending, globbed, depth, wfpos,
                   yielded, prompts>>

\* lines 196-199: the analyses workflow is chosen, the attributes file read
Gd_LoadAttributes ==
    /\ script = "gdac_new" /\ pc = "load_attributes"
    /\ workflow' = analyses_dot
    /\ \E file \in AttrFiles :
          /\ attrfile' = file
          /\ attributes' = load_attributes(file)
    /\ ssets' = args.entities.v
    /\ pc' = "entity_next"
    /\ UNCHANGED <<script, exit, calls, log, spaces, absent, args, workspace,
                   new, configs, sset, pending, globbed, depth, wfpos,
                   yielded, prompts>>

\* lines 199-201: the next entity of the loop over args.entities
Gd_EntityNext ==
    /\ script = "gdac_new" /\ pc = "entity_next"
    /\ ssets # <<>>
    /\ sset' = Head(ssets)
    /\ ssets' = Tail(ssets)
    /\ IF Head(ssets) \in DOMAIN attributes
       THEN /\ pending' = Items(attributes[Head(ssets)])
            /\ pc' = "entity_attr"
       ELSE /\ pending' = pending
            /\ pc' = "entity_next"
    /\ UNCHANGED <<script, exit, calls, log, spaces, absent, args, workspace,
                   new, workflow, configs, attributes, globbed, depth,
                   wfpos, yielded, prompts, attrfile>>

\* lines 201-204: one iteration of the loop over attributes[sset].items()
Gd_EntityAttr ==
    /\ script = "gdac_new" /\ pc = "entity_attr"
    /\ \E item \in pending :
          LET c == Call("attr_set", workspace, sset, <<item[1]>> \o item[2], "ok")
          IN  \/ /\ Returned(c, "entity_attr")
                 /\ pending' = pending \ {item}
              \/ /\ Raised(c)
                 /\ pending' = pending
    /\ UNCHANGED <<script, log, spaces, absent, args, workspace, new, workflow,
                   configs, attributes, ssets, sset, globbed, depth,
                   wfpos, yielded, prompts, attrfile>>

\* the loop over the items is over
Gd_EntityAttrDone ==
    /\ script = "gdac_new" /\ pc = "entity_attr"
    /\ pending = {}
    /\ pc' = "entity_next"
    /\ UNCHANGED <<script, exit, calls, log, spaces, absent, args, workspace,
                   new, workflow, configs, attributes, ssets, sset,
                   pending, globbed, depth, wfpos, yielded, prompts,
                   attrfile>>

\* the loop over args.entities is over, and the loop of line 215 starts
Gd_EntitiesDone ==
    /\ script = "gdac_new" /\ pc = "entity_next"
    /\ ssets = <<>>
    /\ configs' = get_configs(FileLines(workflow.lines))
    /\ pc' = "config_copy"
    /\ UNCHANGED <<script, exit, calls, log, spaces, absent, args, workspace,
                   new, workflow, attributes, ssets, sset, pending,
                   globbed, depth, wfpos, yielded, prompts, attrfile>>

\* lines 215-218: one iteration of the loop over get_configs(workflow)
Gd_ConfigCopy ==
    /\ script = "gdac_new" /\ pc = "config_copy"
    /\ configs # <<>>
    /\ LET c == Call("config_copy", workspace, Head(configs), <<>>, "ok")
       IN  \/ /\ Returned(c, "config_copy")
              /\ configs' = Tail(configs)
           \/ /\ Raised(c)
              /\ configs' = configs
    /\ UNCHANGED <<script, log, spaces, absent, args, workspace, new, workflow,
                   attributes, ssets, sset, pending, globbed, depth,
                   wfpos, yielded, prompts, attrfile>>

\* lines 221-238: the recovery file is announced and, with --dashboard, the
\* cron job added; check_output may fail with CalledProcessError, which is
\* caught, or with another error (no gdac_cron program), which is not
Gd_Dashboard ==
    /\ script = "gdac_new" /\ pc = "config_copy"
    /\ configs = <<>>
    /\ \E outcome \in {"off", "added", "CalledProcessError", "OSError"} :
          /\ log' = IF outcome = "CalledProcessError"
                    THEN log \o <<"Initiating run", "Failed to add Dashboard cron job">>
                    ELSE Append(log, "Initiating run")
          /\ IF outcome = "OSError"
             THEN pc' = "exited" /\ exit' = "exception"
             ELSE pc' = "supervise" /\ exit' = exit
    /\ UNCHANGED <<script, calls, spaces, absent, args, workspace, new,
                   workflow, configs, attributes, ssets, sset, pending,
                   globbed, depth, wfpos, yielded, prompts, attrfile>>

\* Gd_Supervise without the sys.exit of line 253
Gd_SuperviseFallsThrough ==
    /\ script = "gdac_new" /\ pc = "supervise"
    /\ LET recover == workspace \o <<".json">>
           c == Call("supervise", workspace, recover,
                     <<workflow.name>> \o
                     (IF HasEntities THEN <<"-s">> \o Flatten(args.entities.v)
                      ELSE <<>>),
                     "ok")
       IN  \/ /\ calls' = Append(calls, c)
              /\ log' = Append(log, IF new THEN "Successfully completed stddata run"
                                    ELSE "Analyses complete!")
              /\ pc' = "done" /\ exit' = exit
           \/ /\ calls' = Append(calls, [c EXCEPT !.ret = "raised"])
              /\ log' = log \o <<"Supervisor failed">> \o recover
                            \o (IF new THEN <<"Once successful",
                                              "Successfully completed stddata run">>
                                ELSE <<"Analyses complete!">>)
              /\ pc' = "done" /\ exit' = exit
    /\ UNCHANGED <<script, spaces, absent, args, workspace, new, workflow,
                   configs, attributes, ssets, sset, pending, globbed,
                   depth, wfpos, yielded, prompts, attrfile>>

\* lines 240-259: the supervisor runs; a failure is caught and reported
\* with the name of the recovery file
Gd_Supervise ==
    /\ script = "gdac_new" /\ pc = "supervise"
    /\ LET recover == workspace \o <<".json">>
           c == Call("supervise", workspace, recover,
                     <<workflow.name>> \o
                     (IF HasEntities THEN <<"-s">> \o Flatten(args.entities.v)
                      ELSE <<>>),
                     "ok")
       IN  \/ /\ calls' = Append(calls, c)
              /\ log' = Append(log, IF new THEN "Successfully completed stddata run"
                                    ELSE "Analyses complete!")
              /\ pc' = "done" /\ exit' = exit
           \/ /\ calls' = Append(calls, [c EXCEPT !.ret = "raised"])
              /\ log' = log \o <<"Supervisor failed">> \o recover
                            \o (IF new THEN <<"Once successful">> ELSE <<>>)
              /\ SysExit("fail_msg")
    /\ UNCHANGED <<script, spaces, absent, args, workspace, new, workflow,
                   configs, attributes, ssets, sset, pending, globbed,
                   depth, wfpos, yielded, prompts, attrfile>>

gdac_new ==
    \/ Gd_Start
    \/ Gd_CW_SpaceExists
    \/ Gd_CW_AskRename
    \/ Gd_CW_AskInit
    \/ Gd_CW_Input
    \/ Gd_CW_SpaceNew
    \/ Gd_Branch
    \/ Gd_Loadfiles
    \/ Gd_GetSsets
    \/ Gd_AclOwner
    \/ Gd_AclReader
    \/ Gd_AclWriter
    \/ Gd_AttrPackage
    \/ Gd_ImportParticipants
    \/ Gd_ImportSamples
    \/ Gd_ImportSampleSets
    \/ Gd_LoadAttributes
    \/ Gd_EntityNext
    \/ Gd_EntityAttr
    \/ Gd_EntityAttrDone
    \/ Gd_EntitiesDone
    \/ Gd_ConfigCopy
    \/ Gd_Dashboard
    \/ Gd_Supervise

(* ------------------------ get_configs, line by line -------------------- *)

\* the characters of the exhaustively enumerated DOT lines
DotChars == {Q, ";", " ", "a", "-", ">"}

\* sample DOT lines for files of several lines
SampleLines ==
    { <<"digraph", " ", "{">>,
      <<" ", Q, "c1", Q, ";">>,
      <<Q, "c2", Q, " ", ";", " ">>,
      <<Q, "c1", Q, " ", "-", ">", " ", Q, "c2", Q, ";">>,
      <<"rankdir", "=", "LR", ";", ";">>,
      <<Q, "c3", Q>>,
      <<"}">> }

\* the DOT files get_configs is run on: every one-line file of at most
\* MaxLineLen characters, and every file of at most MaxLines sample lines
DotFiles ==
    {<<l>> : l \in SeqsUpTo(DotChars, MaxLineLen)}
        \cup SeqsUpTo(SampleLines, MaxLines)

\* lines 20-23: the generator reads the next line and yields its config
Gc_Line ==
    /\ script = "get_configs" /\ pc = "reading"
    /\ wfpos < Len(workflow.lines)
    /\ LET line == FileLines(workflow.lines)[wfpos + 1]
       IN  yielded' = IF YieldsConfig(line)
                      THEN Append(yielded, ConfigOf(line))
                      ELSE yielded
    /\ wfpos' = wfpos + 1
    /\ UNCHANGED <<script, pc, exit, calls, log, spaces, absent, args,
                   workspace, new, workflow, configs, attributes, ssets,
                   sset, pending, globbed, depth, prompts, attrfile>>

\* line 24: the file is exhausted and closed
Gc_Close ==
    /\ script = "get_configs" /\ pc = "reading"
    /\ wfpos = Len(workflow.lines)
    /\ pc' = "closed"
    /\ UNCHANGED <<script, exit, calls, log, spaces, absent, args, workspace,
                   new, workflow, configs, attributes, ssets, sset,
                   pending, globbed, depth, wfpos, yielded, prompts,
                   attrfile>>

(* ------------------------------ the runs ------------------------------- *)

InitLocals ==
    /\ exit = "running"
    /\ calls = <<>>
    /\ log = <<>>
    /\ new = FALSE
    /\ configs = <<>>
    /\ attributes = <<>>
    /\ ssets = <<>>
    /\ sset = <<>>
    /\ pending = {}
    /\ globbed = <<>>
    /\ prompts = <<>>
    /\ attrfile = [fieldnames |-> <<>>, rows |-> <<>>]
    /\ depth = 0
    /\ wfpos = 0
    /\ yielded = <<>>

InitAnalyses ==
    /\ pc = "start"
    /\ script = "analyses_new"
    /\ args \in AnalysesArgs
    /\ workflow = args.workflow
    /\ workspace = <<>>
    /\ spaces = {}
    /\ absent = {}
    /\ InitLocals

InitStddata ==
    /\ pc = "start"
    /\ script = "stddata_new"
    /\ args \in StddataArgs
    /\ workflow = args.workflow
    /\ workspace = StddataName
    /\ spaces = {}
    /\ absent = {}
    /\ InitLocals

InitGdac ==
    /\ pc = "start"
    /\ script = "gdac_new"
    /\ args \in GdacArgs
    /\ workflow = stddata_dot
    /\ workspace = <<>>
    /\ spaces = {}
    /\ absent = {}
    /\ InitLocals

Init == InitAnalyses \/ InitStddata \/ InitGdac

Next == analyses_new \/ stddata_new \/ gdac_new

Spec == Init /\ [][Next]_vars

\* get_configs alone, on every DOT file of DotFiles
InitConfigs ==
    /\ script = "get_configs"
    /\ args = [user_ssets |-> None, workflow |-> empty_dot, isdir |-> TRUE,
               workspace |-> None, entities |-> None]
    /\ \E f \in DotFiles : workflow = [name |-> "workflow.dot", lines |-> f]
    /\ workspace = <<>>
    /\ spaces = {}
    /\ absent = {}
    /\ InitLocals
    /\ pc = "reading"

NextConfigs == Gc_Line \/ Gc_Close

SpecConfigs == InitConfigs /\ [][NextConfigs]_vars

(* --------------------- analyses_sset_list, set by set ------------------ *)

\* line 30: the sample sets of the workspace are listed
Sl_List ==
    /\ script = "analyses_sset_list" /\ pc = "sset_list"
    /\ LET c == Call("sset_list", workspace, <<>>, <<>>, "ok")
       IN  \/ /\ Returned(c, "visiting")
              /\ \E l \in SsetLists : ssets' = l
           \/ /\ Raised(c)
              /\ ssets' = ssets
    /\ UNCHANGED <<script, log, spaces, absent, args, workspace, new, workflow,
                   configs, attributes, sset, pending, globbed, depth,
                   wfpos, yielded, prompts, attrfile>>

\* lines 31-46: the next listed sample set is yielded or passed over; the
\* IndexError of line 37 leaves the generator
Sl_Visit ==
    /\ script = "analyses_sset_list" /\ pc = "visiting"
    /\ wfpos < Len(ssets)
    /\ LET s     == ssets[wfpos + 1]
           visit == SsetVisit(s, args.user_ssets)
       IN  /\ yielded' = IF visit = "yield" THEN Append(yielded, s) ELSE yielded
           /\ pc' = IF visit = "raise" THEN "exited" ELSE pc
           /\ exit' = IF visit = "raise" THEN "exception" ELSE exit
    /\ wfpos' = wfpos + 1
    /\ UNCHANGED <<script, calls, log, spaces, absent, args, workspace, new,
                   workflow, configs, attributes, ssets, sset, pending,
                   globbed, depth, prompts, attrfile>>

\* the list is exhausted and the generator returns
Sl_Return ==
    /\ script = "analyses_sset_list" /\ pc = "visiting"
    /\ wfpos = Len(ssets)
    /\ pc' = "returned"
    /\ UNCHANGED <<script, exit, calls, log, spaces, absent, args, workspace,
                   new, workflow, configs, attributes, ssets, sset,
                   pending, globbed, depth, wfpos, yielded, prompts,
                   attrfile>>

\* analyses_sset_list alone, with and without user_ssets
InitSsets ==
    /\ script = "analyses_sset_list"
    /\ args \in { [user_ssets |-> u, workflow |-> empty_dot, isdir |-> TRUE,
                   workspace |-> None, entities |-> None] :
                 u \in {None} \cup {Some(l) : l \in UserSsetLists} }
    /\ workflow = empty_dot
    /\ workspace = StddataName
    /\ spaces = {}
    /\ absent = {}
    /\ InitLocals
    /\ pc = "sset_list"

NextSsets == Sl_List \/ Sl_Visit \/ Sl_Return

SpecSsets == InitSsets /\ [][NextSsets]_vars

(* ------------------------------ the claims ----------------------------- *)

Ops(S) == {i \in DOMAIN calls : calls[i].op \in S}

\* the calls that change the remote state, or start work on it
Mutating == {"space_delete", "space_new", "space_set_acl", "attr_set",
             "config_copy", "entity_import", "entity_copy", "supervise"}

\* C1: in each of the three scripts a supervise call is the last remote call
\* issued (no call of any kind follows it, so there is at most one), and a
\* run that reaches the end of main() has issued it.
C1_SuperviseLast ==
    /\ \A i \in Ops({"supervise"}) : i = Len(calls)
    /\ pc = "done" => calls # <<>> /\ calls[Len(calls)].op = "supervise"

\* a gdac_new run that ended normally after ACL, attribute, import and
\* config calls
C1_Witness ==
    /\ script = "gdac_new" /\ pc = "done"
    /\ Ops({"config_copy"}) # {} /\ Ops({"entity_import"}) # {}

\* C2: a space_new for a workspace is issued only when the latest
\* space_exists for that workspace answered false, or answered true and a
\* space_delete for it followed; the run never issues space_new for a
\* workspace it knows to exist.
C2_SpaceNewOnlyIfAbsent ==
    /\ \A i \in Ops({"space_new"}) :
          \E j \in 1..(i - 1) :
             /\ calls[j].op = "space_exists" /\ calls[j].ws = calls[i].ws
             /\ \A k \in (j + 1)..(i - 1) :
                   ~(calls[k].op = "space_exists" /\ calls[k].ws = calls[i].ws)
             /\ \/ calls[j].ret = "false"
                \/ /\ calls[j].ret = "true"
                   /\ \E k \in (j + 1)..(i - 1) :
                         /\ calls[k].op = "space_delete"
                         /\ calls[k].ws = calls[i].ws
                         /\ calls[k].ret = "ok"
    /\ pc \in {"space_new", "cw_space_new"} => workspace \in absent

\* a workspace that existed, was deleted and was created again
C2_Witness ==
    \E i \in Ops({"space_new"}) : \E k \in Ops({"space_delete"}) :
       k < i /\ calls[k].ws = calls[i].ws /\ calls[i].ret = "ok"

\* an attr_set on the workspace itself, not on an entity
WsAttr(i) == calls[i].op = "attr_set" /\ calls[i].ent = <<>>

\* C3 as stated: in each script every config_copy comes after the workspace
\* attributes are set and before every entity_import and entity_copy.
C3_Original ==
    \A i \in Ops({"config_copy"}) :
       /\ \E j \in 1..(i - 1) : WsAttr(j)
       /\ \A k \in Ops({"entity_import", "entity_copy"}) : i < k

\* C3, amended: in analyses_new and stddata_new every config_copy comes after
\* both workspace attr_set calls and before every entity_copy/entity_import;
\* in gdac_new every config_copy comes after every space_set_acl, attr_set
\* and entity_import call of the run, and for a new workspace after the
\* package attr_set and the three entity_import calls.
C3_ConfigCopyOrder ==
    \A i \in Ops({"config_copy"}) :
       IF script = "gdac_new"
       THEN /\ \A k \in Ops({"space_set_acl", "attr_set", "entity_import"}) : k < i
            /\ new => /\ \E j \in 1..(i - 1) : WsAttr(j)
                      /\ Cardinality(Ops({"entity_import"})) = 3
       ELSE /\ Cardinality({j \in 1..(i - 1) : WsAttr(j)}) = 2
            /\ \A k \in Ops({"entity_import", "entity_copy"}) : i < k

\* a gdac_new run that copied a config after importing the loadfiles
C3_Witness ==
    /\ script = "gdac_new"
    /\ \E i \in Ops({"config_copy"}) : \E k \in Ops({"entity_import"}) : k < i

(* C4 is stated without the strip operators the model of the code uses.     *)

\* the line between its first and its last non-whitespace character
Trimmed(line) ==
    LET ns == {i \in DOMAIN line : ~IsSpace(line[i])}
    IN  IF ns = {} THEN <<>>
        ELSE SubSeq(line, CHOOSE i \in ns : \A j \in ns : i <= j,
                          CHOOSE i \in ns : \A j \in ns : j <= i)

\* a line that, trimmed, ends in ';' and holds no '->'
NodeLine(line) ==
    LET t == Trimmed(line)
    IN  /\ t # <<>>
        /\ t[Len(t)] = ";"
        /\ ~\E i \in 1..(Len(t) - 1) : t[i] = "-" /\ t[i + 1] = ">"

\* t is v between double quotes (any number, also none, on either side)
\* followed by one or more semicolons, and v itself is bare of them
Quoted(t, v) ==
    \E a, b, j \in 0..Len(t) :
       /\ a <= b /\ b + j < Len(t)
       /\ v = SubSeq(t, a + 1, b)
       /\ \A i \in 1..a : t[i] = Q
       /\ \A i \in (b + 1)..(b + j) : t[i] = Q
       /\ \A i \in (b + j + 1)..Len(t) : t[i] = ";"
       /\ v # <<>> => /\ v[1] # Q /\ v[Len(v)] # Q
                      /\ j = 0 => v[Len(v)] # ";"

Pieces(t) == {SubSeq(t, a + 1, b) : a, b \in 0..Len(t)}

\* C4: get_configs yields, in file order, exactly one value for every line
\* read that after trimming ends in a semicolon and holds no '->', and
\* nothing for any other line; the value is the trimmed line without its
\* trailing semicolon(s) and surrounding double quotes, so for a line
\* "name"; it is name.
C4_GetConfigs ==
    script = "get_configs" =>
       LET read  == SubSeq(FileLines(workflow.lines), 1, wfpos)
           nodes == SelectSeq(read, NodeLine)
       IN  /\ Len(yielded) = Len(nodes)
           /\ \A k \in DOMAIN nodes :
                 LET t == Trimmed(nodes[k])
                     n == Len(t)
                 IN  /\ k <= Len(yielded)
                     /\ {v \in Pieces(t) : Quoted(t, v)} = {yielded[k]}
                     /\ ( /\ n >= 3 /\ t[1] = Q /\ t[n - 1] = Q
                          /\ \A i \in 2..(n - 2) : t[i] # Q )
                        => yielded[k] = SubSeq(t, 2, n - 2)

\* a file of an edge line and a node line, read to its end
C4_Witness ==
    /\ script = "get_configs" /\ pc = "closed"
    /\ Len(workflow.lines) = 2
    /\ Contains(workflow.lines[1], <<"-", ">">>)
    /\ yielded = << <<"c1">> >>

Last(seq) == seq[Len(seq)]

\* C5: when create_workspace returns (workspace, new), the latest
\* space_exists asked about the returned name; with new true the last two
\* calls are space_exists of that name answering false and space_new of that
\* name; with new false the last call is space_exists of that name answering
\* true, the last question was the 'Initialize analyses run in existing
\* workspace' one for that name, answered yes, and no space_new was issued.
C5_CreateWorkspaceResult ==
    (script = "gdac_new" /\ pc = "branch") =>
       LET n == Len(calls)
           asked == Ops({"space_exists"})
       IN  /\ asked # {}
           /\ \A i \in asked : (\A j \in asked : j <= i) => calls[i].ws = workspace
           /\ new => /\ n >= 2
                     /\ calls[n] = Call("space_new", workspace, <<>>, <<>>, "ok")
                     /\ calls[n - 1] =
                           Call("space_exists", workspace, <<>>, <<>>, "false")
           /\ ~new => /\ calls[n] =
                           Call("space_exists", workspace, <<>>, <<>>, "true")
                      /\ Ops({"space_new"}) = {}
                      /\ prompts # <<>>
                      /\ Last(prompts) =
                            [q |-> "init", ws |-> workspace, answer |-> TRUE]

\* the existing workspace awg_c__u is taken after awg_c was found to exist
C5_Witness ==
    /\ script = "gdac_new" /\ pc = "branch" /\ ~new
    /\ workspace = WithUser(DefaultWorkspace)

\* remove_suffix as its docstring has it: with more than one hyphen, the
\* name without its last hyphen and what follows it
RemoveSuffixDoc(sset_name) ==
    LET name_fields == Split(sset_name, "-")
    IN  IF Len(name_fields) > 2
        THEN Join(SubSeq(name_fields, 1, Len(name_fields) - 1), <<"-">>)
        ELSE sset_name

\* C6 as stated: remove_suffix returns the name without its last hyphen and
\* suffix (more than one hyphen) or the name itself, so that analyses_new
\* with --ssets names the workspace awg_<sorted names joined by _>__<date>
\* and goes on to its first space_exists call.
C6_RemoveSuffixReturns ==
    (script = "analyses_new" /\ ~args.user_ssets.isNone /\ pc # "start") =>
       LET l == args.user_ssets.v
       IN  /\ \A i \in DOMAIN l :
                 /\ ~remove_suffix(l[i]).raised
                 /\ remove_suffix(l[i]).value = RemoveSuffixDoc(l[i])
           /\ ~(exit = "exception" /\ calls = <<>>)
           /\ workspace =
                 <<"awg_">>
                 \o Join(Sorted({Lower(RemoveSuffixDoc(l[i])) : i \in DOMAIN l}),
                         <<"_">>)
                 \o <<"__">> \o datestamp

\* the first-column values of the attributes file
FileKeys(file) == {file.rows[i][1] : i \in DOMAIN file.rows}

\* the columns of the attributes file after the first
RemainingCols(file) == {file.fieldnames[j] : j \in 2..Len(file.fieldnames)}

C8_DeclineLeavesWorkspace ==
    ( /\ script \in {"stddata_new", "analyses_new"}
      /\ prompts # <<>> /\ ~Last(prompts).answer ) =>
       /\ pc = "exited" /\ exit = "0"
       /\ Ops(Mutating) = {}
       /\ workspace \in spaces

\* the user declined in stddata_new
C8_Witness ==
    /\ script = "stddata_new"
    /\ prompts # <<>> /\ ~Last(prompts).answer
    /\ Last(calls).op = "space_exists" /\ Last(calls).ret = "true"

\* the entity type a loadfile name carries: 1 participants, 2 samples,
\* 3 sample sets
Kind(file) ==
    IF \E i \in DOMAIN file : file[i] \in {"Participant", "Participants"} THEN 1
    ELSE IF \E i \in DOMAIN file : file[i] \in {"Sample", "Samples"} THEN 2
    ELSE 3

\* C9: in stddata_new and gdac_new every participant loadfile is imported
\* before every sample loadfile, and every sample loadfile before every
\* sample set loadfile.
C9_ImportOrder ==
    script \in {"stddata_new", "gdac_new"} =>
       \A i, j \in Ops({"entity_import"}) :
          Kind(calls[i].ent) < Kind(calls[j].ent) => i < j

\* a finished stddata_new run that imported loadfiles of all three types
C9_Witness ==
    /\ script = "stddata_new" /\ pc = "done"
    /\ \A k \in 1..3 : \E i \in Ops({"entity_import"}) : Kind(calls[i].ent) = k

\* C10: the first call of analyses_new is space_exists for stddata__<date>;
\* when it answers false the run logs 'Invalid workspace' and exits with
\* status 1, and that call stays the only one.
C10_InvalidStddata ==
    (script = "analyses_new" /\ calls # <<>>) =>
       /\ calls[1].op = "space_exists" /\ calls[1].ws = StddataName
       /\ calls[1].ret = "false" =>
             /\ pc = "exited" /\ exit = "1"
             /\ log = <<"Invalid workspace">>
             /\ Len(calls) = 1

\* the stddata workspace was reported missing
C10_Witness ==
    /\ script = "analyses_new" /\ exit = "1"
    /\ calls # <<>> /\ calls[1].ret = "false"

\* the log holds the message
Logged(msg) == \E i \in DOMAIN log : log[i] = msg

\* C11: in gdac_new, once a loadfile of the new workspace was found missing
\* the run is over with the failure message, and the only mutating remote
\* call of the run is the space_new of create_workspace, its last call: no
\* space_set_acl, attr_set, entity_import, config_copy or supervise.
C11_MissingLoadfile ==
    (script = "gdac_new" /\ Logged("Loadfile not found")) =>
       /\ new
       /\ pc = "exited" /\ exit = "fail_msg"
       /\ Ops(Mutating) = {Len(calls)}
       /\ Last(calls) = Call("space_new", workspace, <<>>, <<>>, "ok")

\* a loadfile is missing for a workspace created under a second name
C11_Witness ==
    /\ script = "gdac_new" /\ exit = "fail_msg"
    /\ log # <<>> /\ Last(log) = "Loadfile not found"
    /\ Cardinality(Ops({"space_exists"})) = 2

\* the config_copy calls of the run, in order
ConfigCopies ==
    LET IsCopy(c) == c.op = "config_copy"
    IN  SelectSeq(calls, IsCopy)

\* C12: in gdac_new, after the user chose the existing workspace without
\* --entities the run ends with the failure message and no mutating call;
\* otherwise the configs copied are those of the Analyses workflow for an
\* existing workspace and those of the stddata workflow for a new one, all
\* of them before supervise, and supervise is given that same workflow.
C12_ExistingWorkspace ==
    script = "gdac_new" =>
       LET used     == IF new THEN stddata_dot ELSE analyses_dot
           expected == get_configs(FileLines(used.lines))
       IN  /\ ( /\ prompts # <<>>
                /\ Last(prompts).q = "init" /\ Last(prompts).answer
                /\ ~HasEntities /\ pc # "branch" )
              => /\ pc = "exited" /\ exit = "fail_msg"
                 /\ Ops(Mutating) = {}
                 /\ Last(log) = "To use an existing workspace"
           /\ \A k \in DOMAIN ConfigCopies :
                 /\ k <= Len(expected)
                 /\ ConfigCopies[k].ent = expected[k]
           /\ \A i \in Ops({"supervise"}) :
                 /\ calls[i].arg[1] = used.name
                 /\ Len(ConfigCopies) = Len(expected)
                 /\ ~new => HasEntities

\* an analyses run in an existing workspace that copied the Analyses config
\* and started the supervisor on Analyses.dot
C12_Witness ==
    /\ script = "gdac_new" /\ ~new /\ pc = "done"
    /\ \E i \in Ops({"config_copy"}) : calls[i].ent = <<"c3">>
    /\ Last(calls).arg[1] = "Analyses.dot"

\* a success message of gdac_new is in the log
SuccessLogged ==
    Logged("Successfully completed stddata run") \/ Logged("Analyses complete!")

\* C13: in gdac_new a success message is logged only after supervise, the
\* last call, returned normally; supervise is passed <workspace>.json as
\* its recovery file, and when it raises the run logs 'Supervisor failed'
\* followed by that same file name, exits with the failure message and logs
\* no success message.
C13_SuperviseFailure ==
    script = "gdac_new" =>
       /\ SuccessLogged =>
             /\ pc = "done" /\ calls # <<>>
             /\ Last(calls).op = "supervise" /\ Last(calls).ret = "ok"
       /\ \A i \in Ops({"supervise"}) :
             /\ calls[i].ent = workspace \o <<".json">>
             /\ calls[i].ret = "raised" =>
                   /\ pc = "exited" /\ exit = "fail_msg"
                   /\ ~SuccessLogged
                   /\ \E k \in DOMAIN log :
                         /\ log[k] = "Supervisor failed"
                         /\ SubSeq(log, k + 1, k + Len(calls[i].ent)) = calls[i].ent

\* the supervisor failed in a workspace created under the name <name>__<user>
C13_Witness ==
    /\ script = "gdac_new" /\ exit = "fail_msg" /\ new
    /\ calls # <<>> /\ Last(calls).op = "supervise" /\ Last(calls).ret = "raised"
    /\ workspace = WithUser(DefaultWorkspace)

\* the sample sets C14 says are yielded
ClaimKeeps(s, user_ssets) ==
    IF ~user_ssets.isNone THEN s \in Range(user_ssets.v)
    ELSE LET low    == Lower(s)
             fields == Split(low, "-")
             cohort_field == IF Len(fields) >= 2 THEN fields[Len(fields) - 1] ELSE <<>>
         IN  /\ cohort_field \notin {<<"stes">>, <<"gbmlgg">>, <<"kipan">>, <<"pangi">>}
             /\ \/ EndsWith(low, <<"laml", "-", "tb">>)
                \/ EndsWith(low, <<"skcm", "-", "tm">>)
                \/ /\ EndsWith(low, <<"-", "tp">>)
                   /\ cohort_field \notin {<<"skcm">>, <<"laml">>}

\* C14 as stated: analyses_sset_list yields, in the order listed, exactly
\* the listed sample sets that are in user_ssets or, without user_ssets,
\* that pass the cohort and suffix tests, and it handles every listed name
\* without raising.
C14_SsetListYields ==
    (script = "analyses_sset_list" /\ pc # "sset_list") =>
       LET Keeps(s) == ClaimKeeps(s, args.user_ssets)
       IN  /\ ~(exit = "exception" /\ Last(calls).ret = "ok")
           /\ yielded = SelectSeq(SubSeq(ssets, 1, wfpos), Keeps)

====
